---- MODULE Spec2Model ----
(***************************************************************************)
(* Model of src/main.py: the Odoo -> BigQuery batch synchronisation run    *)
(* (run_sync) together with the three external systems it talks to: the    *)
(* Odoo record source, the BigQuery table and the checkpoint state file.   *)
(*                                                                         *)
(* Time is counted in ticks, a fraction of a second.  A source record is   *)
(* [id, create_date]; a destination row is [id, insertId].  The position   *)
(* of run_sync between two external calls is pc.                           *)
(***************************************************************************)
EXTENDS Integers, Sequences, FiniteSets, Bags, TLC

\* ------------------------------------------------------------------ bounds
MaxSrc == 2          \* records of a small source
MaxFaults == 2       \* failing external calls per run
MaxRuns == 2         \* runs of the engine in one behaviour
TicksPerSecond == 3  \* resolution of the clock

\* ------------------------------------------------------- program constants
BUFFER_MINUTES == 2  \* default of the BUFFER_MINUTES setting
MAX_BATCHES == 100   \* the safety limit: offset >= BATCH_LIMIT * 100
ODOO_MODEL == "sale.order"

Second == TicksPerSecond
Minute == 60 * Second
Day == 24 * 60 * Minute
\* Python's None, for the values that are otherwise a record.
None == <<>>

\* The lookback the runs are configured with, when they have one.
Lookback == 7 * Day

\* The clock of the first run, not on a whole second, and the creation times
\* a source record has relative to it: one tick before the start of the
\* lookback, inside the lookback, inside the buffer.
T0 == 8 * Day + (Second - 1)
CreateTimes == {T0 - Lookback - 1, T0 - 10 * Minute, T0 - Minute}
\* Time that passes between two runs: enough for the records the buffer
\* held back to become eligible.
RunGap == (BUFFER_MINUTES + 3) * Minute

VARIABLES
    \* configuration (module-level settings, fixed for a behaviour)
    BATCH_LIMIT, LOOKBACK_DAYS, DELETE_SYNCED_RECORDS,
    \* environment
    odoo,            \* source records, ordered by create_date ascending
    table_exists,    \* the destination table exists
    bq,              \* destination rows
    state_file,      \* checkpoint file content, None when absent
    now,             \* the clock
    \* run_sync
    pc, run,
    existing_ids, date_filter, offset,
    total_fetched, total_inserted, total_skipped, total_deleted, total_failed,
    batch, new_records, succeeded_records, inserted_count,
    \* observation of the external calls of the current run
    calls,           \* number of calls per external operation
    last,            \* outcome of the latest get_table, fetch and insert call
    unlinked,        \* ids passed to unlink
    reported_ok,     \* ids a bulk insert reported as inserted
    reported_failed, \* ids a bulk insert reported as failed
    eligible,        \* ids the run's filter admitted when the loop began
    prev,            \* what the previous run did, None in the first run
    faults,          \* failing external calls so far
    budget,          \* failing external calls the environment may produce per run
    \* a function of the program applied on its own
    arg, result

config == <<BATCH_LIMIT, LOOKBACK_DAYS, DELETE_SYNCED_RECORDS>>
env == <<odoo, table_exists, bq, state_file, now>>
counters == <<total_fetched, total_inserted, total_skipped, total_deleted, total_failed>>
page == <<batch, new_records, succeeded_records, inserted_count>>
observed == <<calls, last, unlinked, reported_ok, reported_failed, eligible, prev,
              faults, budget>>
pure == <<arg, result>>
engine == <<config, env, pc, run, existing_ids, date_filter, offset, counters, page,
            observed>>
vars == <<engine, pure>>

\* ------------------------------------------------------------------ helpers
Range(s) == {s[i] : i \in 1..Len(s)}
Ids(s) == {s[i].id : i \in 1..Len(s)}
Min(a, b) == IF a < b THEN a ELSE b

\* The sequence s without the elements at the (1-based) positions in P.
RECURSIVE Without(_, _)
Without(s, P) ==
    IF s = <<>> THEN <<>>
    ELSE LET n == Len(s)
             front == Without(SubSeq(s, 1, n - 1), P)
         IN IF n \in P THEN front ELSE Append(front, s[n])

NoCalls == [get_table |-> 0, sample |-> 0, existing |-> 0, fetch |-> 0,
            insert |-> 0, unlink |-> 0, checkpoint |-> 0]
NoOutcome == [table |-> "none", fetch |-> "none", insert |-> "none", row_ids |-> {},
              sent |-> {}, failed_indices |-> {}]

\* How a call ends: with a value, or with an exception leaving the function.
Returned(v) == [raised |-> FALSE, value |-> v]
Raised == [raised |-> TRUE, value |-> None]

\* strftime('%Y-%m-%d %H:%M:%S'): the instant without its fraction of a second.
Strftime(t) == t - (t % Second)

\* ------------------------------------------------ the Odoo record source
\* The domain built by fetch_records_batch: no filter without a window, else
\* create_date > from and create_date <= to.
InDomain(r, df) ==
    IF df = None THEN TRUE
    ELSE r.create_date > Strftime(df.from) /\ r.create_date <= Strftime(df.to)

\* search_read(domain, limit, offset, order = 'create_date asc').
SearchRead(df, limit, off) ==
    LET hits == SelectSeq(odoo, LAMBDA r : InDomain(r, df))
    IN SubSeq(hits, off + 1, Min(off + limit, Len(hits)))

\* unlink(ids): the records with these ids leave the source.
Unlink(ids) == SelectSeq(odoo, LAMBDA r : r.id \notin ids)

\* --------------------------------------------------- the BigQuery table
InsertId_ModelOnly(r) == <<ODOO_MODEL, 0>>

\* The insertId of a row: f"{ODOO_MODEL}_{record['id']}".
InsertId(r) == <<ODOO_MODEL, r.id>>

RowOf(r) == [id |-> r.id, insertId |-> InsertId(r)]

\* The row_ids of one insert_rows_json call, each with the id of its record.
RowIds(rows) == {<<r.id, InsertId(r)>> : r \in Range(rows)}

\* insert_rows_json with row_ids: the rows land, except those whose insertId
\* the table has already seen (the sink deduplicates by insertId).  The
\* table is a bag: a row that landed twice is there twice.
Landed(rows) ==
    bq (+) SetToBag({RowOf(r) : r \in {x \in Range(rows) :
                 \A old \in BagToSet(bq) : old.insertId # InsertId(x)}})

\* SELECT id FROM table, collected into a set.
get_existing_ids == {row.id : row \in BagToSet(bq)}

\* -------------------------------------------------- the checkpoint file
\* The checkpoint is kept in a local file or, in cloud mode (ENVIRONMENT is
\* "cloud" and GCS_BUCKET is set), in a bucket object.  Its content is None
\* when absent, [last_synced |-> ts] when well formed, Corrupt otherwise.
\* io_ok tells whether the storage can be opened for the operation.
Corrupt == [garbage |-> TRUE]
Readable(store, io_ok) == io_ok /\ store # None /\ store # Corrupt

\* get_last_synced_time() at the instant t: the stored instant; now - 1 day
\* without a checkpoint and, in cloud mode, after any failure.  The local
\* branch has no exception handler.
get_last_synced_time(cloud, store, io_ok, t) ==
    IF cloud
    THEN IF Readable(store, io_ok) THEN Returned(store.last_synced)
         ELSE Returned(t - Day)
    ELSE IF store = None THEN Returned(t - Day)
         ELSE IF Readable(store, io_ok) THEN Returned(store.last_synced)
         ELSE Raised

\* update_last_synced_time(ts): how the call ends and what the storage holds
\* afterwards.  A failure is logged in cloud mode and raised in local mode.
\* run_sync never calls it.
update_last_synced_time(cloud, store, io_ok, ts) ==
    IF io_ok THEN [raised |-> FALSE, store |-> [last_synced |-> ts]]
    ELSE [raised |-> ~cloud, store |-> store]

\* ----------------------------------------------------------- run_sync
\* Step 3: the date window, None when LOOKBACK_DAYS is the sentinel -1.
Window(t, lookback_days, buffer_minutes) ==
    IF lookback_days # -1
    THEN [from |-> t - lookback_days * Day, to |-> t - buffer_minutes * Minute]
    ELSE None

DateFilter(t) == Window(t, LOOKBACK_DAYS, BUFFER_MINUTES)

NewRecords_Unfiltered(b, existing) == b

\* new_records = [r for r in batch if r['id'] not in existing_ids]
NewRecords(b, existing) == SelectSeq(b, LAMBDA r : r.id \notin existing)

Succeeded_OneBased(recs, failed_indices) == Without(recs, failed_indices)

\* succeeded_records = [r for i, r in enumerate(new_records)
\*                      if i not in failed_indices]   (indices from 0)
Succeeded(recs, failed_indices) == Without(recs, {i + 1 : i \in failed_indices})

EndOfData_Retry(b) == FALSE

\* `if not batch: break`
EndOfData(b) == b = <<>>

SafetyLimit_OffByOne(off) == off > BATCH_LIMIT * MAX_BATCHES

\* `if offset >= BATCH_LIMIT * 100: break`
SafetyLimit(off) == off >= BATCH_LIMIT * MAX_BATCHES

DeleteWanted_FlagIgnored(count) == count > 0

\* `if DELETE_SYNCED_RECORDS and inserted_count > 0`
DeleteWanted(count) == DELETE_SYNCED_RECORDS /\ count > 0

AfterBootstrap_FallsThrough == "get_existing"

\* Where run_sync stands after the bootstrap branch: it returns.
AfterBootstrap == "done"

AfterRaise_MarksSynced(existing, recs) == existing \cup Ids(recs)

\* existing_ids after an insert that raised: untouched.
AfterRaise(existing, recs) == existing

\* A large source is one that outlasts the safety limit; on it the failing
\* calls are confined to the calls up to the first fetch and to the page the
\* limit stops at.
LargeSource == Len(odoo) > MaxSrc
MayFail ==
    /\ faults < budget
    /\ LargeSource => calls.fetch \in {0, MAX_BATCHES}

Call(op) == [calls EXCEPT ![op] = @ + 1]

\* "Move to next batch" and the safety limit (lines 448-455), entered with
\* the page's inserted count; the loop either fetches again or ends.
NextBatch(count) ==
    /\ total_inserted' = total_inserted + count
    /\ offset' = offset + BATCH_LIMIT
    /\ pc' = IF SafetyLimit(offset + BATCH_LIMIT) THEN "summary" ELSE "fetch"

\* Step 1, table found.
TableFound ==
    /\ pc = "check_table"
    /\ table_exists
    /\ calls' = Call("get_table")
    /\ last' = [last EXCEPT !.table = "found"]
    /\ pc' = "get_existing"
    /\ UNCHANGED <<config, pure, env, run, existing_ids, date_filter, offset, counters,
                   page, unlinked, reported_ok, reported_failed, eligible, prev,
                   faults, budget>>

\* Step 1, get_table raises: the table is absent, or the call failed.
TableNotFound ==
    /\ pc = "check_table"
    /\ \/ ~table_exists /\ faults' = faults
       \/ table_exists /\ MayFail /\ faults' = faults + 1
    /\ calls' = Call("get_table")
    /\ last' = [last EXCEPT !.table = "failed"]
    /\ pc' = "sample"
    /\ UNCHANGED <<config, pure, env, run, existing_ids, date_filter, offset, counters,
                   page, unlinked, reported_ok, reported_failed, eligible, prev,
                   budget>>

\* The sample read of the bootstrap branch (lines 281-316): whatever it
\* returns, the DDL is only printed and run_sync returns.
FetchSample ==
    /\ pc = "sample"
    /\ calls' = Call("sample")
    /\ \/ faults' = faults
       \/ MayFail /\ faults' = faults + 1
    /\ pc' = AfterBootstrap
    /\ UNCHANGED <<config, pure, env, run, existing_ids, date_filter, offset, counters,
                   page, last, unlinked, reported_ok, reported_failed, eligible,
                   prev, budget>>

\* Steps 2-4 up to the loop: the existing ids (the empty set when the query
\* raises), the window, and the counters set to zero.
LoadExistingIds ==
    /\ pc = "get_existing"
    /\ calls' = Call("existing")
    /\ \/ existing_ids' = get_existing_ids /\ faults' = faults
       \/ MayFail /\ existing_ids' = {} /\ faults' = faults + 1
    /\ date_filter' = DateFilter(now)
    /\ eligible' = {r.id : r \in {x \in Range(odoo) : InDomain(x, DateFilter(now))}}
    /\ offset' = 0
    /\ total_fetched' = 0 /\ total_inserted' = 0 /\ total_skipped' = 0
    /\ total_deleted' = 0 /\ total_failed' = 0
    /\ pc' = "fetch"
    /\ UNCHANGED <<config, pure, env, run, page, last, unlinked, reported_ok,
                   reported_failed, prev, budget>>

\* The loop body up to the insert, for the page b (lines 346-361): an empty
\* page ends the loop; otherwise the duplicates are counted and dropped, and
\* the page goes to the insert, or straight to the next batch when nothing
\* is new.
TakeBatch(b) ==
    /\ batch' = b
    /\ IF EndOfData(b)
       THEN /\ pc' = "summary"
            /\ new_records' = new_records
            /\ UNCHANGED <<offset, counters>>
       ELSE /\ new_records' = NewRecords(b, existing_ids)
            /\ total_fetched' = total_fetched + Len(b)
            /\ total_skipped' = total_skipped + (Len(b) - Len(new_records'))
            /\ IF new_records' # <<>>
               THEN /\ pc' = "insert"
                    /\ UNCHANGED <<offset, total_inserted>>
               ELSE NextBatch(0)
            /\ UNCHANGED <<total_deleted, total_failed>>

\* One page fetched: search_read returns.
FetchBatch ==
    /\ pc = "fetch"
    /\ calls' = Call("fetch")
    /\ last' = [last EXCEPT !.fetch = "ok"]
    /\ TakeBatch(SearchRead(date_filter, BATCH_LIMIT, offset))
    /\ UNCHANGED <<config, pure, env, run, existing_ids, date_filter, succeeded_records,
                   inserted_count, unlinked, reported_ok, reported_failed,
                   eligible, prev, faults, budget>>

\* search_read raises: fetch_records_batch catches it and returns [].
FetchBatchFails ==
    /\ pc = "fetch"
    /\ MayFail
    /\ calls' = Call("fetch")
    /\ last' = [last EXCEPT !.fetch = "failed"]
    /\ faults' = faults + 1
    /\ TakeBatch(<<>>)
    /\ UNCHANGED <<config, pure, env, run, existing_ids, date_filter, succeeded_records,
                   inserted_count, unlinked, reported_ok, reported_failed,
                   eligible, prev, budget>>

MarkSynced_Replaces(existing, ok) == Ids(ok)

\* existing_ids.add(r['id']) for every succeeded record (lines 406-407,
\* 428-429).
MarkSynced(existing, ok) == existing \cup Ids(ok)

\* After the insert of a page with `ok` succeeded records: the delete, when
\* configured and something was inserted, else the next batch.
AfterInsert(ok) ==
    /\ succeeded_records' = ok
    /\ inserted_count' = Len(ok)
    /\ existing_ids' = MarkSynced(existing_ids, ok)
    /\ reported_ok' = reported_ok \cup Ids(ok)
    /\ IF DeleteWanted(Len(ok))
       THEN pc' = "unlink" /\ UNCHANGED <<offset, total_inserted>>
       ELSE NextBatch(Len(ok))

\* insert_rows_json returns no errors (lines 423-440).
InsertAll ==
    /\ pc = "insert"
    /\ calls' = Call("insert")
    /\ last' = [last EXCEPT !.insert = "ok", !.sent = Ids(new_records),
                            !.row_ids = RowIds(new_records),
                            !.failed_indices = {}]
    /\ bq' = Landed(new_records)
    /\ AfterInsert(new_records)
    /\ UNCHANGED <<config, pure, odoo, table_exists, state_file, now, run, date_filter,
                   total_fetched, total_skipped, total_deleted, total_failed,
                   batch, new_records, unlinked, reported_failed, eligible, prev,
                   faults, budget>>

\* insert_rows_json returns per-row errors at the indices F (lines 379-421).
InsertPartial ==
    /\ pc = "insert"
    /\ MayFail
    /\ \E F \in (SUBSET (0..(Len(new_records) - 1))) \ {{}} :
         /\ last' = [last EXCEPT !.insert = "errors", !.sent = Ids(new_records),
                            !.row_ids = RowIds(new_records),
                                 !.failed_indices = F]
         /\ bq' = Landed(Without(new_records, {i + 1 : i \in F}))
         /\ reported_failed' = reported_failed \cup {new_records[i + 1].id : i \in F}
         /\ total_failed' = total_failed + Cardinality(F)
         /\ AfterInsert(Succeeded(new_records, F))
    /\ calls' = Call("insert")
    /\ faults' = faults + 1
    /\ UNCHANGED <<config, pure, odoo, table_exists, state_file, now, run, date_filter,
                   total_fetched, total_skipped, total_deleted,
                   batch, new_records, unlinked, eligible, prev, budget>>

\* insert_rows_json raises (lines 444-446): the page is skipped.  The rows
\* may or may not have landed before the call failed.
InsertRaises ==
    /\ pc = "insert"
    /\ MayFail
    /\ calls' = Call("insert")
    /\ last' = [last EXCEPT !.insert = "raised", !.sent = Ids(new_records),
                            !.row_ids = RowIds(new_records),
                            !.failed_indices = {}]
    /\ faults' = faults + 1
    /\ bq' \in {bq, Landed(new_records)}
    /\ existing_ids' = AfterRaise(existing_ids, new_records)
    /\ succeeded_records' = <<>>
    /\ inserted_count' = 0
    /\ NextBatch(0)
    /\ UNCHANGED <<config, pure, odoo, table_exists, state_file, now, run, date_filter,
                   total_fetched, total_skipped, total_deleted, total_failed,
                   batch, new_records, unlinked, reported_ok, reported_failed,
                   eligible, prev, budget>>

\* unlink of the succeeded ids returns (lines 414-419, 433-438).
DeleteSynced ==
    /\ pc = "unlink"
    /\ calls' = Call("unlink")
    /\ unlinked' = unlinked \cup Ids(succeeded_records)
    /\ odoo' = Unlink(Ids(succeeded_records))
    /\ total_deleted' = total_deleted + Len(succeeded_records)
    /\ NextBatch(inserted_count)
    /\ UNCHANGED <<config, pure, table_exists, bq, state_file, now, run, date_filter,
                   existing_ids, total_fetched, total_skipped, total_failed,
                   page, last, reported_ok, reported_failed, eligible, prev,
                   faults, budget>>

DeletedAfterFailure_Counted(deleted, n) == deleted + n

\* total_deleted when unlink raised for n ids: the += of the try block
\* (lines 418, 436) is not reached.
DeletedAfterFailure(deleted, n) == deleted

\* unlink raises (lines 420-421, 439-440): logged, the run goes on.  The
\* records may or may not have been deleted before the call failed.
DeleteFails ==
    /\ pc = "unlink"
    /\ MayFail
    /\ calls' = Call("unlink")
    /\ faults' = faults + 1
    /\ total_deleted' = DeletedAfterFailure(total_deleted, Len(succeeded_records))
    /\ unlinked' = unlinked \cup Ids(succeeded_records)
    /\ odoo' \in {odoo, Unlink(Ids(succeeded_records))}
    /\ NextBatch(inserted_count)
    /\ UNCHANGED <<config, pure, table_exists, bq, state_file, now, run, date_filter,
                   existing_ids, total_fetched, total_skipped,
                   total_failed, page, last, reported_ok, reported_failed,
                   eligible, prev, budget>>

\* Step 5: the summary is printed and run_sync returns.
Summary ==
    /\ pc = "summary"
    /\ pc' = "done"
    /\ UNCHANGED <<config, pure, env, run, existing_ids, date_filter, offset,
                   counters, page, observed>>

\* The operator runs the printed CREATE TABLE statement.
CreateTable ==
    /\ pc = "done"
    /\ ~table_exists
    /\ table_exists' = TRUE
    /\ UNCHANGED <<config, pure, odoo, bq, state_file, now, pc, run, existing_ids,
                   date_filter, offset, counters, page, observed>>

\* A fresh process: every variable of run_sync starts over.
FreshRun ==
    /\ pc' = "check_table"
    /\ existing_ids' = {}
    /\ date_filter' = None
    /\ offset' = 0
    /\ total_fetched' = 0 /\ total_inserted' = 0 /\ total_skipped' = 0
    /\ total_deleted' = 0 /\ total_failed' = 0
    /\ batch' = <<>> /\ new_records' = <<>> /\ succeeded_records' = <<>>
    /\ inserted_count' = 0
    /\ calls' = NoCalls /\ last' = NoOutcome
    /\ unlinked' = {} /\ reported_ok' = {} /\ reported_failed' = {}
    /\ eligible' = {}
    /\ faults' = 0

\* What a finished run leaves for the next one to be compared with.
RunRecord ==
    [clean |-> pc = "done" /\ calls.fetch > 0 /\ faults = 0, eligible |-> eligible,
     killed |-> pc = "killed",
     inserted |-> IF pc = "killed" THEN reported_ok ELSE {}]

\* The process is killed between two pages of a run no call of which failed;
\* on a large source, after the first page.
Kill ==
    /\ pc = "fetch"
    /\ calls.fetch > 0
    /\ faults = 0
    /\ LargeSource => calls.fetch = 1
    /\ pc' = "killed"
    /\ UNCHANGED <<config, pure, env, run, existing_ids, date_filter, offset,
                   counters, page, observed>>

\* The script is started again, some minutes later.
StartRun ==
    /\ pc \in {"done", "killed"}
    /\ run < MaxRuns
    /\ run' = run + 1
    /\ now' = now + RunGap
    /\ prev' = RunRecord
    /\ FreshRun
    /\ UNCHANGED <<config, pure, odoo, table_exists, bq, state_file, budget>>

\* ------------------------------------------------------------ Init, Next
\* Sources of n records with ids 1..n in creation order.
RECURSIVE Sources(_)
Sources(n) ==
    IF n = 0 THEN {<<>>}
    ELSE {Append(s, [id |-> n, create_date |-> t]) :
            s \in Sources(n - 1), t \in CreateTimes}

Sorted(s) == \A i \in 1..(Len(s) - 1) : s[i].create_date <= s[i + 1].create_date

SmallSources == UNION {{s \in Sources(n) : Sorted(s)} : n \in 0..MaxSrc}

\* A source with more pages than the safety limit allows in one run.
LargeSourceLen == 2 * MAX_BATCHES
TheLargeSource ==
    [i \in 1..LargeSourceLen |-> [id |-> i, create_date |-> T0 - 10 * Minute]]

InitRun ==
    /\ \/ /\ odoo \in SmallSources
          /\ BATCH_LIMIT \in {1, 2}
          /\ table_exists \in BOOLEAN
          /\ \E present \in SUBSET Ids(odoo) :
                /\ table_exists \/ present = {}
                /\ bq = SetToBag({RowOf(r) : r \in {x \in Range(odoo) : x.id \in present}})
       \/ /\ odoo = TheLargeSource
          /\ BATCH_LIMIT = 1
          /\ table_exists = TRUE
          /\ bq = EmptyBag
    /\ LOOKBACK_DAYS \in {-1, 7}
    /\ DELETE_SYNCED_RECORDS \in BOOLEAN
    /\ state_file = None
    /\ now = T0
    /\ pc = "check_table"
    /\ run = 1
    /\ existing_ids = {}
    /\ date_filter = None
    /\ offset = 0
    /\ total_fetched = 0 /\ total_inserted = 0 /\ total_skipped = 0
    /\ total_deleted = 0 /\ total_failed = 0
    /\ batch = <<>> /\ new_records = <<>> /\ succeeded_records = <<>>
    /\ inserted_count = 0
    /\ calls = NoCalls /\ last = NoOutcome
    /\ unlinked = {} /\ reported_ok = {} /\ reported_failed = {}
    /\ eligible = {}
    /\ prev = None
    /\ faults = 0
    /\ arg = None /\ result = None

Init == InitRun /\ budget = MaxFaults

Next ==
    \/ TableFound
    \/ TableNotFound
    \/ FetchSample
    \/ LoadExistingIds
    \/ FetchBatch
    \/ FetchBatchFails
    \/ InsertAll
    \/ InsertPartial
    \/ InsertRaises
    \/ DeleteSynced
    \/ DeleteFails
    \/ Summary
    \/ CreateTable
    \/ Kill
    \/ StartRun

Spec == Init /\ [][Next]_vars

TypeOK ==
    /\ pc \in {"check_table", "sample", "get_existing", "fetch", "insert",
               "unlink", "summary", "done", "killed"}
    /\ run \in 1..MaxRuns
    /\ faults \in 0..MaxFaults
    /\ offset \in Nat
    /\ Sorted(odoo)

\* The steps of run_sync itself, as opposed to the operator's.
RunStep ==
    \/ TableFound
    \/ TableNotFound
    \/ FetchSample
    \/ LoadExistingIds
    \/ FetchBatch
    \/ FetchBatchFails
    \/ InsertAll
    \/ InsertPartial
    \/ InsertRaises
    \/ DeleteSynced
    \/ DeleteFails
    \/ Summary

\* A bulk insert call, a page fetch and an unlink call are made in this step.
InsertCalled == calls'.insert = calls.insert + 1
FetchCalled == calls'.fetch = calls.fetch + 1
UnlinkCalled == calls'.unlink = calls.unlink + 1

\* --------------------------------------------------------------- claims

\* C1: every run that gets past bootstrapping and finishes draining has
\* written the checkpoint exactly once, with the window's `to` bound
\* (now - buffer), whether or not a record failed.
C1_CheckpointWrittenOnce ==
    (pc = "done" /\ calls.fetch > 0)
        => /\ calls.checkpoint = 1
           /\ state_file = update_last_synced_time(FALSE, state_file, TRUE,
                                                   now - BUFFER_MINUTES * Minute).store

\* C2: when the bulk insert of N new records reports failures at the indices
\* F, exactly the ids at the other indices enter existing_ids, failed grows
\* by |F| and inserted by N - |F|, the delete (when enabled) carries exactly
\* those ids, and no id at a failed index is marked synced or deleted.
C2_PartialFailure ==
    /\ [](reported_failed \cap (existing_ids \cup unlinked) = {})
    /\ [][/\ (InsertCalled /\ last'.insert = "errors") =>
               LET N == Len(new_records)
                   F == last'.failed_indices
                   good == {new_records[j].id : j \in {k \in 1..N : (k - 1) \notin F}}
                   bad == {new_records[i + 1].id : i \in F}
               IN /\ existing_ids' = existing_ids \cup good
                  /\ Cardinality(existing_ids' \ existing_ids) = N - Cardinality(F)
                  /\ bad \cap existing_ids' = {}
                  /\ total_failed' = total_failed + Cardinality(F)
                  /\ inserted_count' = N - Cardinality(F)
                  /\ IF DELETE_SYNCED_RECORDS /\ N - Cardinality(F) > 0
                     THEN /\ pc' = "unlink"
                          /\ Ids(succeeded_records') = good
                          /\ Len(succeeded_records') = N - Cardinality(F)
                     ELSE /\ pc' # "unlink"
                          /\ total_inserted' = total_inserted + (N - Cardinality(F))
          /\ UnlinkCalled =>
               /\ pc = "unlink"
               /\ unlinked' = unlinked \cup Ids(succeeded_records)
               /\ Ids(odoo) \ Ids(odoo') \subseteq Ids(succeeded_records)
               /\ total_inserted' = total_inserted + inserted_count
      ]_vars

C2_Witness ==
    /\ last.insert = "errors"
    /\ Cardinality(last.failed_indices) = 1
    /\ Cardinality(last.sent) = 2
    /\ calls.unlink = 1
    /\ Cardinality(unlinked) = 1

\* C3: a fetched page adds to skipped_duplicate exactly the number of its
\* records whose id is in existing_ids, and no such record is ever part of a
\* bulk insert call; a page of duplicates only causes no insert call.
C3_Dedup ==
    [][/\ FetchCalled =>
            /\ total_skipped' - total_skipped =
                  Cardinality({i \in 1..Len(batch') : batch'[i].id \in existing_ids})
            /\ (Ids(batch') \subseteq existing_ids) => pc' # "insert"
       /\ InsertCalled =>
            /\ last'.sent # {}
            /\ last'.sent \cap existing_ids = {}
            /\ last'.sent = {r.id : r \in {x \in Range(batch) : x.id \notin existing_ids}}
      ]_vars

C3_Witness ==
    /\ calls.insert = 1
    /\ total_skipped = 1
    /\ Len(batch) = 2
    /\ Cardinality(last.sent) = 1

\* C4: every id passed to the source's delete was reported as inserted by a
\* bulk insert of the same run and is in existing_ids; with the
\* delete-after-sync flag off no delete call is issued.
C4_DeleteOnlySynced ==
    /\ unlinked \subseteq reported_ok
    /\ unlinked \subseteq existing_ids
    /\ pc = "unlink" => /\ Ids(succeeded_records) \subseteq reported_ok
                        /\ Ids(succeeded_records) \subseteq existing_ids
                        /\ succeeded_records # <<>>
    /\ ~DELETE_SYNCED_RECORDS => calls.unlink = 0 /\ unlinked = {} /\ pc # "unlink"

C4_Witness == DELETE_SYNCED_RECORDS /\ Cardinality(unlinked) >= 2 /\ total_failed > 0

\* C5 as stated: when the bulk insert raises, existing_ids and inserted are
\* unchanged, no delete is issued, and the engine fetches the next page at
\* offset + batch limit instead of ending the run.
C5_Original ==
    [][(InsertCalled /\ last'.insert = "raised") =>
          /\ existing_ids' = existing_ids
          /\ total_inserted' = total_inserted
          /\ pc' # "unlink" /\ unlinked' = unlinked /\ odoo' = odoo
          /\ offset' = offset + BATCH_LIMIT
          /\ pc' = "fetch"
      ]_vars

\* C5 amended: ... and the engine fetches the next page at offset + batch
\* limit, unless that offset reaches the safety limit of 100 pages, where
\* the run ends with the summary.
C5_PageAbandoned ==
    [][(InsertCalled /\ last'.insert = "raised") =>
          /\ existing_ids' = existing_ids
          /\ total_inserted' = total_inserted
          /\ pc' # "unlink" /\ unlinked' = unlinked /\ odoo' = odoo
          /\ offset' = offset + BATCH_LIMIT
          /\ (offset' < MAX_BATCHES * BATCH_LIMIT) => pc' = "fetch"
          /\ (offset' >= MAX_BATCHES * BATCH_LIMIT) => pc' = "summary"
      ]_vars

C5_Witness ==
    /\ last.insert = "raised"
    /\ pc = "insert"
    /\ calls.insert = 1
    /\ calls.fetch = 2

\* C6: a run never makes more than 100 page fetches, and it always reaches
\* its end: no step of run_sync blocks, and every step lowers a measure
\* that is never negative.
Measure ==
    CASE pc = "check_table" -> 3 * MAX_BATCHES + 6
      [] pc = "get_existing" -> 3 * MAX_BATCHES + 5
      [] pc = "fetch" -> 3 * (MAX_BATCHES - calls.fetch) + 4
      [] pc = "insert" -> 3 * (MAX_BATCHES - calls.fetch) + 6
      [] pc = "unlink" -> 3 * (MAX_BATCHES - calls.fetch) + 5
      [] pc = "sample" -> 1
      [] pc = "summary" -> 1
      [] pc = "done" -> 0
      [] pc = "killed" -> 0

C6_FetchBound ==
    /\ [](/\ calls.fetch <= MAX_BATCHES
          /\ Measure >= 0
          /\ pc \notin {"done", "killed"} => ENABLED RunStep)
    /\ [][RunStep => Measure' < Measure]_vars

C6_Witness == pc = "done" /\ calls.fetch = MAX_BATCHES /\ faults > 0

\* C9: when the table check fails the run ends in bootstrapping: at most one
\* sample read, and no existing-id query, page fetch, bulk insert, source
\* delete or checkpoint write; inserted stays 0.
C9_BootstrapOnly ==
    last.table = "failed" =>
        /\ pc \in {"sample", "done"}
        /\ calls.sample = (IF pc = "done" THEN 1 ELSE 0)
        /\ calls.existing = 0 /\ calls.fetch = 0 /\ calls.insert = 0
        /\ calls.unlink = 0 /\ calls.checkpoint = 0
        /\ total_inserted = 0
        /\ reported_ok = {} /\ unlinked = {}

C9_Witness == last.table = "failed" /\ pc = "done" /\ odoo # <<>> /\ run = 1

\* C10: a failed page fetch counts as an empty page: the loop ends without
\* another fetch, the summary is reached, and existing_ids and the counters
\* of the earlier pages stay as they were.
C10_FetchFailureStops ==
    [][/\ (FetchCalled /\ last'.fetch = "failed") =>
            /\ pc' = "summary"
            /\ existing_ids' = existing_ids
            /\ counters' = counters
            /\ bq' = bq /\ odoo' = odoo
       /\ pc = "summary" =>
            /\ pc' = "done"
            /\ calls' = calls
            /\ existing_ids' = existing_ids
            /\ counters' = counters
      ]_vars

C10_Witness ==
    /\ last.fetch = "failed"
    /\ pc = "done"
    /\ total_inserted > 0
    /\ existing_ids # {}

\* C7: when the engine is run twice in succession with no record added to
\* the source in between, the second run ends with inserted = 0.  Stated
\* for the case the claim is about: both runs synced without any failing
\* call, and the second run's filter admits nothing the first did not.
C7_SecondRunInsertsNothing ==
    (/\ run = 2 /\ pc = "done" /\ calls.fetch > 0 /\ faults = 0
     /\ prev.clean
     /\ eligible \subseteq prev.eligible)
        => total_inserted = 0

\* ------------------------------------------- reruns of a reliable system
\* The script is started again at once, as often as the operator likes.
Rerun ==
    /\ pc = "done"
    /\ prev' = RunRecord
    /\ FreshRun
    /\ UNCHANGED <<config, pure, odoo, table_exists, bq, state_file, now, run, budget>>

\* All calls succeed: the environment has no failure to give.
InitReliable == InitRun /\ budget = 0

NextRerun ==
    \/ TableFound
    \/ TableNotFound
    \/ FetchSample
    \/ LoadExistingIds
    \/ FetchBatch
    \/ InsertAll
    \/ DeleteSynced
    \/ Summary
    \/ CreateTable
    \/ Rerun

\* run_sync runs to its end once started, and the operator keeps rerunning.
RerunSpec == InitReliable /\ [][NextRerun]_vars /\ WF_vars(NextRerun)

\* The records the filter of a run started now admits.
EligibleNow == {r.id : r \in {x \in Range(odoo) : InDomain(x, DateFilter(now))}}

\* C8: after a run stopped at the safety limit, reruns continue beyond it:
\* with an unchanged source and a reliable source and sink, repeated runs
\* eventually replicate every eligible source record.
C8_RerunsReplicateAll ==
    (table_exists /\ ~DELETE_SYNCED_RECORDS)
        => <>(EligibleNow \subseteq get_existing_ids)

\* ------------------------------------ functions applied on their own
\* The engine constructed and not started, while one function is applied.
Idle ==
    /\ BATCH_LIMIT = 1 /\ LOOKBACK_DAYS = -1 /\ DELETE_SYNCED_RECORDS = FALSE
    /\ odoo = <<>> /\ table_exists = FALSE /\ bq = EmptyBag /\ state_file = None
    /\ now = T0
    /\ pc = "check_table"
    /\ run = 1
    /\ existing_ids = {}
    /\ date_filter = None
    /\ offset = 0
    /\ total_fetched = 0 /\ total_inserted = 0 /\ total_skipped = 0
    /\ total_deleted = 0 /\ total_failed = 0
    /\ batch = <<>> /\ new_records = <<>> /\ succeeded_records = <<>>
    /\ inserted_count = 0
    /\ calls = NoCalls /\ last = NoOutcome
    /\ unlinked = {} /\ reported_ok = {} /\ reported_failed = {}
    /\ eligible = {}
    /\ prev = None
    /\ faults = 0
    /\ budget = 0

\* ------------------------------------------------- the window, step 3
MaxLookbackDays == 7     \* largest LOOKBACK_DAYS setting tried
MaxBufferMinutes == 3    \* largest BUFFER_MINUTES setting tried

\* Settings int(os.getenv(...)) accepts: any integer, -1 meaning no window.
WindowInputs ==
    [now : {T0, T0 + 1, T0 + RunGap},
     lookback_days : (-2)..MaxLookbackDays,
     buffer_minutes : 0..MaxBufferMinutes]

InitWindow == Idle /\ arg \in WindowInputs /\ result = None

\* Lines 323-332 with the settings of arg.
ComputeWindow ==
    /\ result = None
    /\ result' = Returned(Window(arg.now, arg.lookback_days, arg.buffer_minutes))
    /\ UNCHANGED <<engine, arg>>

WindowSpec == InitWindow /\ [][ComputeWindow]_vars

\* C11: whenever run_sync computes a window (lookback other than -1), the
\* window satisfies from <= to, for every configured lookback in days and
\* every configured buffer in minutes.
C11_FromBeforeTo ==
    (result # None /\ result.value # None) => result.value.from <= result.value.to

\* ------------------------------------------------ the window in a run
\* The records a page fetch returned lie inside the window [from, to].
InsideWindow(b, df) ==
    \A r \in Range(b) : df.from <= r.create_date /\ r.create_date <= df.to

\* C12: with a lookback of 7 days and a buffer of 2 minutes, the window's
\* `to` is at most the time the window was computed, the same window goes to
\* every page fetch of the run, and the filter sent to the source admits no
\* record created outside [from, to].
C12_WindowRespected ==
    [][(FetchCalled /\ LOOKBACK_DAYS = 7) =>
          /\ date_filter = DateFilter(now)
          /\ date_filter.to <= now
          /\ date_filter' = date_filter
          /\ InsideWindow(batch', date_filter)]_vars

\* ------------------------------------------------------ the checkpoint
Stores == {None, Corrupt} \cup {[last_synced |-> t] : t \in {T0 - Day, T0 - Minute}}

CheckpointInputs ==
    [op : {"read", "write"}, cloud : BOOLEAN, store : Stores, io_ok : BOOLEAN,
     now : {T0, T0 + 1, T0 + RunGap}]

InitCheckpoint == Idle /\ arg \in CheckpointInputs /\ result = None

GetLastSyncedTime ==
    /\ arg.op = "read"
    /\ result = None
    /\ result' = get_last_synced_time(arg.cloud, arg.store, arg.io_ok, arg.now)
    /\ UNCHANGED <<engine, arg>>

UpdateLastSyncedTime ==
    /\ arg.op = "write"
    /\ result = None
    /\ result' = update_last_synced_time(arg.cloud, arg.store, arg.io_ok,
                                         arg.now - BUFFER_MINUTES * Minute)
    /\ UNCHANGED <<engine, arg>>

NextCheckpoint == GetLastSyncedTime \/ UpdateLastSyncedTime

CheckpointSpec == InitCheckpoint /\ [][NextCheckpoint]_vars

\* The read or write could not be done: the storage cannot be opened, or the
\* checkpoint read is not well formed.
CheckpointFailure ==
    ~arg.io_ok \/ (arg.op = "read" /\ arg.store = Corrupt)

\* C13: a failure while reading or writing the checkpoint never raises out
\* of the operation, in local-file mode as in object-storage mode: a failed
\* read yields now - 1 day, a failed write leaves the caller running.
C13_CheckpointNeverRaises ==
    (result # None /\ CheckpointFailure)
        => /\ ~result.raised
           /\ arg.op = "read" => result.value = arg.now - Day

\* ------------------------------------------------- a kill and a replay
\* The table holds one row per id, once.
OneRowPerId(table) ==
    BagCardinality(table) = Cardinality({row.id : row \in BagToSet(table)})

\* C14: when a run is killed between two pages and a fresh run is started,
\* every row the killed run inserted is still at the destination and, the
\* sink deduplicating by insertId, the destination never holds two rows for
\* one source id; every row is sent with the key (ODOO_MODEL, id) of its own
\* id.
C14_ReplaySafe ==
    [][/\ bq \sqsubseteq bq'
       /\ (prev' # None /\ prev'.killed) => prev'.inserted \subseteq get_existing_ids'
       /\ OneRowPerId(bq')
       /\ \A k \in last'.row_ids : k[2] = <<ODOO_MODEL, k[1]>>]_vars

\* A run after a killed one sends again a row the killed run had inserted.
C14_Witness ==
    /\ prev # None /\ prev.killed
    /\ last.insert = "ok"
    /\ last.sent \cap prev.inserted # {}
    /\ OneRowPerId(bq)

\* --------------------------------------------- values of a source record
\* A Python value carries its type: None, bool, int, float, str, list, dict.
\* A str is its sequence of characters, a float its whole part and tenth, a
\* list its sequence of elements, a dict (and so a record) its sequence of
\* [key, value] items in insertion order.
Null == [t |-> "null"]
BoolOf(b) == [t |-> "bool", b |-> b]
IntOf(n) == [t |-> "int", n |-> n]
FloatOf(w, d) == [t |-> "float", whole |-> w, tenth |-> d]
StrOf(cs) == [t |-> "str", cs |-> cs]
ListOf(xs) == [t |-> "list", items |-> xs]
DictOf(items) == [t |-> "dict", items |-> items]
Item(k, x) == [key |-> k, value |-> x]

\* isinstance(value, type): bool is a subclass of int.
IsInstance(x, type) ==
    IF type = "int" THEN x.t \in {"int", "bool"} ELSE x.t = type

\* isinstance(value, (list, dict))
IsContainer(x) == IsInstance(x, "list") \/ IsInstance(x, "dict")

Digit == <<"0", "1", "2", "3", "4", "5", "6", "7", "8", "9">>
Whitespace == {" ", "\t"}

\* "sep".join(parts)
RECURSIVE Join(_, _)
Join(parts, sep) ==
    IF parts = <<>> THEN <<>>
    ELSE IF Len(parts) = 1 THEN parts[1]
    ELSE parts[1] \o sep \o Join(Tail(parts), sep)

\* json.dumps(value) with the default separators.
RECURSIVE JsonDumps(_)
JsonDumps(x) ==
    CASE x.t = "null" -> <<"n", "u", "l", "l">>
      [] x.t = "bool" -> IF x.b THEN <<"t", "r", "u", "e">>
                         ELSE <<"f", "a", "l", "s", "e">>
      [] x.t = "int" -> <<Digit[x.n + 1]>>
      [] x.t = "float" -> <<Digit[x.whole + 1], ".", Digit[x.tenth + 1]>>
      [] x.t = "str" -> <<"\"">> \o x.cs \o <<"\"">>
      [] x.t = "list" ->
            <<"[">> \o Join([i \in 1..Len(x.items) |-> JsonDumps(x.items[i])],
                            <<",", " ">>)
                    \o <<"]">>
      [] x.t = "dict" ->
            <<"{">> \o Join([i \in 1..Len(x.items) |->
                               <<"\"">> \o x.items[i].key \o <<"\"", ":", " ">>
                                        \o JsonDumps(x.items[i].value)],
                            <<",", " ">>)
                    \o <<"}">>

\* value.strip() == ''
Blank(cs) == \A i \in 1..Len(cs) : cs[i] \in Whitespace

\* ------------------------------------------------ sanitize_record_for_bq
BoolText_FalseEmpty(b) == IF b THEN <<"t", "r", "u", "e">> ELSE <<>>

\* "true" if value else "false"
BoolText(b) == IF b THEN <<"t", "r", "u", "e">> ELSE <<"f", "a", "l", "s", "e">>

IsEmptyContainer_Never(x) == FALSE

\* isinstance(value, (list, dict)) and not value
IsEmptyContainer(x) == IsContainer(x) /\ x.items = <<>>

\* The if/elif chain of lines 198-217 for one value.
SanitizeValue(x) ==
    IF x = Null THEN Null
    ELSE IF IsEmptyContainer(x) THEN Null
    ELSE IF IsContainer(x) THEN StrOf(JsonDumps(x))
    ELSE IF IsInstance(x, "bool") THEN StrOf(BoolText(x.b))
    ELSE IF IsInstance(x, "str") /\ Blank(x.cs) THEN Null
    ELSE x

\* A new dict with the same keys in the same order.
sanitize_record_for_bq(record) ==
    [i \in 1..Len(record) |-> Item(record[i].key, SanitizeValue(record[i].value))]

MaxFields == 2    \* most fields of a record tried

\* Empty, whitespace-only and other strings, one of them an output of the
\* function.
Strings ==
    {<<>>, <<" ">>, <<"\t">>, <<" ", "\t">>, <<"a">>, <<" ", "a">>, <<"a", " ">>,
     <<"t", "r", "u", "e">>}

Scalars ==
    {Null, BoolOf(TRUE), BoolOf(FALSE), IntOf(0), IntOf(7), FloatOf(0, 0),
     FloatOf(1, 5)} \cup {StrOf(cs) : cs \in Strings}

Containers ==
    {ListOf(<<>>), ListOf(<<IntOf(1)>>), ListOf(<<Null, StrOf(<<"a">>)>>),
     ListOf(<<BoolOf(FALSE), FloatOf(1, 5)>>), ListOf(<<ListOf(<<>>)>>),
     DictOf(<<>>), DictOf(<<Item(<<"a">>, IntOf(1))>>),
     DictOf(<<Item(<<"k">>, ListOf(<<IntOf(2)>>)), Item(<<"n">>, Null)>>)}

Values == Scalars \cup Containers

FieldNames == <<<<"i", "d">>, <<"n", "a", "m", "e">>, <<"n", "o", "t", "e">>>>

\* Records of up to MaxFields fields, as search_read returns them.
Records ==
    UNION {{[i \in 1..n |-> Item(FieldNames[i], f[i])] : f \in [1..n -> Values]} :
              n \in 0..MaxFields}

InitSanitize == Idle /\ arg \in Records /\ result = None

\* sanitize_record_for_bq(arg): the result is a new dict, arg is only read.
Sanitize ==
    /\ result = None
    /\ result' = Returned(sanitize_record_for_bq(arg))
    /\ arg' = arg
    /\ UNCHANGED engine

SanitizeSpec == InitSanitize /\ [][Sanitize]_vars

\* C15: sanitize_record_for_bq is idempotent: sanitising a sanitised record
\* gives the same record, for values that are null, boolean, integer,
\* float, string, list or object.
C15_Idempotent ==
    result # None => sanitize_record_for_bq(result.value) = result.value

\* A record with a non-empty list or object and a boolean was sanitised.
C15_Witness ==
    /\ result # None
    /\ \E i \in 1..Len(arg) : IsContainer(arg[i].value) /\ arg[i].value.items # <<>>
    /\ \E i \in 1..Len(arg) : arg[i].value = BoolOf(FALSE)

\* The output the rules give for one input value, the first matching rule
\* deciding.
RuleFollowed(in, out) ==
    CASE in.t = "null" -> out = Null
      [] in.t \in {"list", "dict"} /\ in.items = <<>> -> out = Null
      [] in.t \in {"list", "dict"} /\ in.items # <<>> -> out = StrOf(JsonDumps(in))
      [] in.t = "bool" /\ in.b -> out = StrOf(<<"t", "r", "u", "e">>)
      [] in.t = "bool" /\ ~in.b -> out = StrOf(<<"f", "a", "l", "s", "e">>)
      [] in.t = "str" /\ (\A i \in 1..Len(in.cs) : in.cs[i] \in Whitespace) -> out = Null
      [] OTHER -> out = in

\* C16: every output value of sanitize_record_for_bq is a string, an
\* integer, a float or null, never a list, an object or a boolean, and is
\* given by the first matching rule: null -> null; empty list/object ->
\* null; non-empty list/object -> its JSON string; boolean -> "true" or
\* "false"; empty or whitespace-only string -> null; else unchanged.  The
\* input record is not modified.
C16_RulesInOrder ==
    [][Sanitize =>
          /\ arg' = arg
          /\ Len(result'.value) = Len(arg)
          /\ \A i \in 1..Len(arg) :
                /\ result'.value[i].key = arg[i].key
                /\ result'.value[i].value.t \in {"str", "int", "float", "null"}
                /\ RuleFollowed(arg[i].value, result'.value[i].value)]_vars

\* A record with an empty list and a whitespace-only string was sanitised.
C16_Witness ==
    /\ result # None
    /\ \E i \in 1..Len(arg) : arg[i].value = ListOf(<<>>)
    /\ \E i \in 1..Len(arg) : arg[i].value = StrOf(<<" ", "\t">>)

\* ------------------------------------------------------- existing_ids
\* The ids a bulk insert sent at indices it did not report as failed.
NotReportedFailed ==
    {new_records[i + 1].id : i \in (0..(Len(new_records) - 1)) \ last'.failed_indices}

\* C17: during a run existing_ids only grows, and an id enters it only by
\* being loaded at the start of the run or by having been sent in a bulk
\* insert at an index the insert did not report as failed.
C17_ExistingIdsGrow ==
    [][RunStep =>
          /\ existing_ids \subseteq existing_ids'
          /\ existing_ids' # existing_ids =>
                \/ pc = "get_existing" /\ existing_ids' = get_existing_ids
                \/ /\ InsertCalled
                   /\ last'.insert \in {"ok", "errors"}
                   /\ existing_ids' \ existing_ids \subseteq NotReportedFailed]_vars

\* A bulk insert reported a failed index: the other id entered, the failed
\* one did not.
C17_Witness ==
    /\ last.insert = "errors"
    /\ last.sent \cap reported_ok # {}
    /\ last.sent \cap reported_failed # {}
    /\ reported_ok \subseteq existing_ids
    /\ existing_ids \cap reported_failed = {}

\* ------------------------------------------------- a failing delete
\* The unlink call made in this step raised.
UnlinkFailed == UnlinkCalled /\ faults' = faults + 1

\* C18 as stated: when the delete call for a page fails, the deleted counter
\* is not increased, the page's succeeded ids stay in existing_ids and are
\* counted in inserted, and the next page is fetched; deleted <= inserted in
\* every state.
C18_Original ==
    [][/\ UnlinkFailed =>
             /\ total_deleted' = total_deleted
             /\ Ids(succeeded_records) \subseteq existing_ids'
             /\ total_inserted' = total_inserted + Len(succeeded_records)
             /\ offset' = offset + BATCH_LIMIT
             /\ pc' = "fetch"
       /\ total_deleted' <= total_inserted'
      ]_vars

\* C18 amended: ... and the next page is fetched, unless its offset reaches
\* the safety limit of 100 pages, where the run ends with the summary;
\* deleted <= inserted whenever run_sync is between two external calls.
C18_DeleteFailureGoesOn ==
    [][/\ UnlinkFailed =>
             /\ total_deleted' = total_deleted
             /\ Ids(succeeded_records) \subseteq existing_ids'
             /\ total_inserted' = total_inserted + Len(succeeded_records)
             /\ offset' = offset + BATCH_LIMIT
             /\ (offset' < MAX_BATCHES * BATCH_LIMIT) => pc' = "fetch"
             /\ (offset' >= MAX_BATCHES * BATCH_LIMIT) => pc' = "summary"
       /\ total_deleted' <= total_inserted'
      ]_vars

\* A delete failed on a page before the limit: the page counts as inserted,
\* not as deleted, and the next page is about to be fetched.
C18_Witness ==
    /\ DELETE_SYNCED_RECORDS
    /\ calls.unlink > 0
    /\ pc = "fetch"
    /\ total_deleted < total_inserted
    /\ Ids(succeeded_records) \subseteq existing_ids

\* ------------------------------------------------- the bootstrap DDL
python_type_to_bq_IntFirst(value) ==
    IF value = Null THEN "STRING"
    ELSE IF IsInstance(value, "int") THEN "INTEGER"
    ELSE IF IsInstance(value, "bool") THEN "STRING"
    ELSE IF IsInstance(value, "float") THEN "FLOAT64"
    ELSE "STRING"

\* python_type_to_bq(value): the isinstance tests in their order.
python_type_to_bq(value) ==
    IF value = Null THEN "STRING"
    ELSE IF IsInstance(value, "bool") THEN "STRING"
    ELSE IF IsInstance(value, "int") THEN "INTEGER"
    ELSE IF IsInstance(value, "float") THEN "FLOAT64"
    ELSE IF IsInstance(value, "list") THEN "STRING"
    ELSE IF IsInstance(value, "dict") THEN "STRING"
    ELSE "STRING"

\* cs.split('.')
RECURSIVE Split(_)
Split(cs) ==
    IF \A i \in 1..Len(cs) : cs[i] # "." THEN <<cs>>
    ELSE LET dot == CHOOSE i \in 1..Len(cs) :
                        cs[i] = "." /\ \A j \in 1..(i - 1) : cs[j] # "."
         IN <<SubSeq(cs, 1, dot - 1)>> \o Split(SubSeq(cs, dot + 1, Len(cs)))

\* generate_create_table_sql(table_id, record): None unless table_id has
\* three parts; else the statement, held as the table it names and its
\* "  name TYPE" lines in the order of the record's fields.
generate_create_table_sql(table_id, record) ==
    LET parts == Split(table_id)
    IN IF Len(parts) # 3 THEN None
       ELSE [table |-> parts,
             fields |-> [i \in 1..Len(record) |->
                            [name |-> record[i].key,
                             type |-> python_type_to_bq(record[i].value)]]]

\* Table identifiers of one to four dotted parts, one with an empty part.
TableIds ==
    {<<"t">>, <<"d", ".", "t">>, <<"p", ".", "d", ".", "t">>, <<"p", ".", ".", "t">>,
     <<"p", ".", "d", ".", "t", ".", "x">>}

DdlInputs == [table_id : TableIds, record : Records]

InitDdl == Idle /\ arg \in DdlInputs /\ result = None

GenerateCreateTableSql ==
    /\ result = None
    /\ result' = Returned(generate_create_table_sql(arg.table_id, arg.record))
    /\ UNCHANGED <<engine, arg>>

DdlSpec == InitDdl /\ [][GenerateCreateTableSql]_vars

\* The number of dots of a table identifier.
Dots(cs) == Cardinality({i \in 1..Len(cs) : cs[i] = "."})

\* The type the claim gives for a sample value.
TypeFor(x) ==
    CASE x.t \in {"null", "bool"} -> "STRING"
      [] x.t = "int" -> "INTEGER"
      [] x.t = "float" -> "FLOAT64"
      [] OTHER -> "STRING"

\* C19: the bootstrap DDL lists one name and type for every field of the
\* sample record, the type inferred from the sample value: null and boolean
\* give STRING (a boolean is never INTEGER), integer gives INTEGER, float
\* gives FLOAT64, list, object and anything else give STRING; no DDL is
\* produced unless the table identifier has exactly three dotted parts.
C19_DdlFromSample ==
    result # None =>
        IF Dots(arg.table_id) = 2
        THEN /\ result.value # None
             /\ Len(result.value.fields) = Len(arg.record)
             /\ \A i \in 1..Len(arg.record) :
                   /\ result.value.fields[i].name = arg.record[i].key
                   /\ result.value.fields[i].type = TypeFor(arg.record[i].value)
        ELSE result.value = None

\* A DDL was produced for a sample with a boolean and an integer field.
C19_Witness ==
    /\ result # None /\ result.value # None
    /\ \E i \in 1..Len(arg.record) : arg.record[i].value = BoolOf(TRUE)
    /\ \E i \in 1..Len(arg.record) : arg.record[i].value = IntOf(7)

\* ----------------------------------------------- a run without failure
\* run_sync has returned after a run in which no call failed and that ended
\* on an empty page below the safety limit.
EndedOnEmptyPage ==
    /\ pc = "done"
    /\ calls.fetch > 0
    /\ faults = 0
    /\ batch = <<>>
    /\ offset < BATCH_LIMIT * MAX_BATCHES

\* C20: in a run without fetch, insert or delete failure that ends because a
\* page came back empty, every source record eligible for the window at the
\* start of the run is at the destination at the end of the run, also when
\* delete-after-sync is enabled.
C20_CleanRunReplicatesAll ==
    EndedOnEmptyPage => eligible \subseteq get_existing_ids

\* ------------------------------------------------ the counters of a run
\* C21: at the end of every run each fetched record has been counted once:
\* fetched = inserted + failed + skipped, whatever the outcomes of the pages
\* (full success, partial failure, hard insert failure), so that a run
\* ending with failed = 0 has replicated every fetched record that was not
\* a duplicate.
C21_EveryFetchedCounted ==
    (pc = "done" /\ calls.fetch > 0)
        => total_fetched = total_inserted + total_failed + total_skipped

====
